---- MODULE Spec2Model ----
(***************************************************************************)
(* Model of cel.go: a command-line harness that evaluates CEL expressions  *)
(* against YAML objects, either interactively (one result per object and   *)
(* expression) or as a benchmark (warm-up, timed phase, report).           *)
(*                                                                         *)
(* The CEL library is a black box.  What a source string does is read off  *)
(* its tokens: a source holding "b" does not compile, one holding "c"      *)
(* compiles but env.Program fails on it, one holding "d" may fail any      *)
(* single call of Eval, and every other source compiles and evaluates.     *)
(* Files are sequences of tokens; the expression file's tokens are " "     *)
(* (white space), "---" (the separator) and the letters above.             *)
(***************************************************************************)
EXTENDS Integers, Sequences, FiniteSets, TLC

\* ---- bounds of the model ----
MaxArgs == 4
MaxObjects == 2
MaxTextLen == 4
\* stands for the 1024*1024 iterations of cel.go:108, scaled down
Iterations == 2

\* ---- program constants ----
WarmupReps == 10
RequiredArgs == 3
ContentLimit == 50

VARIABLES
    args,           \* os.Args[1:]
    pc,             \* position in main / runBenchmark
    benchmarkMode,  \* main: benchmarkMode
    filteredArgs,   \* main: filteredArgs
    objects,        \* main: objects (document ids, in file order)
    expressions,    \* main: expressions (after split and trim)
    params,         \* main: params ("none" until loaded)
    programs,       \* compileExpressions: programs (each the source it came from)
    cIdx,           \* compileExpressions: position of the range loop
    objIdx,         \* main: objIdx of the interactive loop (1-based)
    exprIdx,        \* main: exprIdx of the interactive loop (1-based)
    wr,             \* runBenchmark warm-up: i
    i, k, oi,       \* runBenchmark timed phase: i (1-based), k, object position
    stats,          \* runBenchmark: stats
    clock,          \* wall clock: one tick per Eval
    startTime,      \* runBenchmark: startTime
    exprStart,      \* runBenchmark: exprStart
    out,            \* lines written to standard output / the log
    exitCode,       \* process exit status (-1 while running)
    \* history variables (not in the program)
    compileCalls,   \* sources handed to env.Compile so far
    evalCalls,      \* sources whose program was handed to Eval so far
    warmEvals,      \* number of Eval calls of the warm-up phase
    warmErrSeen,    \* some warm-up Eval returned an error
    timedEvals      \* per program, number of Eval calls of the timed phase

vars == <<args, pc, benchmarkMode, filteredArgs, objects, expressions, params,
          programs, cIdx, objIdx, exprIdx, wr, i, k, oi, stats, clock,
          startTime, exprStart, out, exitCode, compileCalls, evalCalls,
          warmEvals, warmErrSeen, timedEvals>>

\* ---- helpers ----
SeqsUpTo(S, n) == UNION {[1..m -> S] : m \in 0..n}
Range(s) == {s[n] : n \in 1..Len(s)}
Min(a, b) == IF a < b THEN a ELSE b

ArgTokens == {"--benchmark", "file"}
TextTokens == {" ", "---", "a", "b", "c", "d"}
DocTokens == {"doc", "malformed"}

\* strings.TrimSpace
RECURSIVE TrimLeft(_)
TrimLeft(s) == IF s # <<>> /\ Head(s) = " " THEN TrimLeft(Tail(s)) ELSE s
RECURSIVE TrimRight(_)
TrimRight(s) ==
    IF s # <<>> /\ s[Len(s)] = " " THEN TrimRight(SubSeq(s, 1, Len(s) - 1)) ELSE s
TrimSpace(s) == TrimRight(TrimLeft(s))

\* strings.Split(s, "---"): always at least one segment
RECURSIVE Split(_)
Split(s) ==
    IF \A n \in 1..Len(s) : s[n] # "---" THEN <<s>>
    ELSE LET p == CHOOSE n \in 1..Len(s) :
                      s[n] = "---" /\ \A m \in 1..(n - 1) : s[m] # "---"
         IN <<SubSeq(s, 1, p - 1)>> \o Split(SubSeq(s, p + 1, Len(s)))

\* cel.go:201-205
SplitExpressions(text) ==
    LET raw == Split(TrimSpace(text))
    IN [n \in 1..Len(raw) |-> TrimSpace(raw[n])]

\* the CEL collaborator
CompileFails(src) == "b" \in Range(src)
ProgramFails(src) == "c" \in Range(src)
EvalMayFail(src) == "d" \in Range(src)
EvalErrs(src) == IF EvalMayFail(src) THEN {TRUE, FALSE} ELSE {FALSE}

\* cel.go:166-173
RECURSIVE FilterArgs(_)
FilterArgs(a) ==
    IF a = <<>> THEN <<>>
    ELSE IF Head(a) = "--benchmark" THEN FilterArgs(Tail(a))
    ELSE <<Head(a)>> \o FilterArgs(Tail(a))

\* variant: the flag is honoured only as the first argument
HasBenchmarkFlag_First(a) == a # <<>> /\ a[1] = "--benchmark"

HasBenchmarkFlag(a) == \E n \in 1..Len(a) : a[n] = "--benchmark"

\* parseYAMLDocuments: nil and an error at the first malformed document
ParseFails(file) == "malformed" \in Range(file)
ParseYAMLDocuments(file) == IF ParseFails(file) THEN <<>> ELSE [n \in 1..Len(file) |-> n]

\* parseSingleYAMLDocument: what the one Decode meets at the head of the stream
\* (a document, a malformed document, or the end of an empty stream); nothing
\* after it is read
FirstDecode == {"doc", "malformed", "EOF"}
ParseSingleFails(first) == first # "doc"

Fatal(msg) == [kind |-> "fatal", msg |-> msg]

Init ==
    /\ args \in SeqsUpTo(ArgTokens, MaxArgs)
    /\ pc = "start"
    /\ benchmarkMode = FALSE
    /\ filteredArgs = <<>>
    /\ objects = <<>>
    /\ expressions = <<>>
    /\ params = "none"
    /\ programs = <<>>
    /\ cIdx = 1
    /\ objIdx = 1
    /\ exprIdx = 1
    /\ wr = 0
    /\ i = 1 /\ k = 0 /\ oi = 1
    /\ stats = <<>>
    /\ clock = 0
    /\ startTime = 0
    /\ exprStart = 0
    /\ out = <<>>
    /\ exitCode = -1
    /\ compileCalls = {}
    /\ evalCalls = {}
    /\ warmEvals = 0
    /\ warmErrSeen = FALSE
    /\ timedEvals = <<>>

\* cel.go:161-178, the usage error
ParseArgsUsage ==
    /\ pc = "start"
    /\ Len(FilterArgs(args)) < RequiredArgs
    /\ benchmarkMode' = HasBenchmarkFlag(args)
    /\ filteredArgs' = FilterArgs(args)
    /\ out' = Append(out, [kind |-> "usage"])
    /\ exitCode' = 1
    /\ pc' = "exit"
    /\ UNCHANGED <<args, objects, expressions, params, programs, cIdx, objIdx,
                   exprIdx, wr, i, k, oi, stats, clock, startTime,
                   exprStart, compileCalls, evalCalls, warmEvals, warmErrSeen,
                   timedEvals>>

\* cel.go:161-182
ParseArgs ==
    /\ pc = "start"
    /\ Len(FilterArgs(args)) >= RequiredArgs
    /\ benchmarkMode' = HasBenchmarkFlag(args)
    /\ filteredArgs' = FilterArgs(args)
    /\ pc' = "loadObjects"
    /\ UNCHANGED <<args, objects, expressions, params, programs, cIdx, objIdx,
                   exprIdx, wr, i, k, oi, stats, clock, startTime,
                   exprStart, out, exitCode, compileCalls, evalCalls, warmEvals,
                   warmErrSeen, timedEvals>>

\* cel.go:185-188, os.ReadFile fails
ReadObjectsFails ==
    /\ pc = "loadObjects"
    /\ out' = Append(out, Fatal("Failed to read object file"))
    /\ exitCode' = 1
    /\ pc' = "exit"
    /\ UNCHANGED <<args, benchmarkMode, filteredArgs, objects, expressions, params,
                   programs, cIdx, objIdx, exprIdx, wr, i, k, oi, stats,
                   clock, startTime, exprStart, compileCalls, evalCalls,
                   warmEvals, warmErrSeen, timedEvals>>

\* cel.go:185-193, the file is read and a document of it is malformed
ParseObjectsFails ==
    /\ pc = "loadObjects"
    /\ \E file \in SeqsUpTo(DocTokens, MaxObjects) :
          /\ ParseFails(file)
          /\ objects' = ParseYAMLDocuments(file)
    /\ out' = Append(out, Fatal("Failed to parse object YAML"))
    /\ exitCode' = 1
    /\ pc' = "exit"
    /\ UNCHANGED <<args, benchmarkMode, filteredArgs, expressions, params,
                   programs, cIdx, objIdx, exprIdx, wr, i, k, oi, stats,
                   clock, startTime, exprStart, compileCalls, evalCalls,
                   warmEvals, warmErrSeen, timedEvals>>

\* cel.go:185-193
LoadObjects ==
    /\ pc = "loadObjects"
    /\ \E file \in SeqsUpTo(DocTokens, MaxObjects) :
          /\ ~ParseFails(file)
          /\ objects' = ParseYAMLDocuments(file)
    /\ pc' = "loadExpressions"
    /\ UNCHANGED <<args, benchmarkMode, filteredArgs, expressions, params,
                   programs, cIdx, objIdx, exprIdx, wr, i, k, oi, stats,
                   clock, startTime, exprStart, out, exitCode, compileCalls,
                   evalCalls, warmEvals, warmErrSeen, timedEvals>>

\* cel.go:196-199, os.ReadFile fails
ReadExpressionsFails ==
    /\ pc = "loadExpressions"
    /\ out' = Append(out, Fatal("Failed to read expression file"))
    /\ exitCode' = 1
    /\ pc' = "exit"
    /\ UNCHANGED <<args, benchmarkMode, filteredArgs, objects, expressions, params,
                   programs, cIdx, objIdx, exprIdx, wr, i, k, oi, stats,
                   clock, startTime, exprStart, compileCalls, evalCalls,
                   warmEvals, warmErrSeen, timedEvals>>

\* cel.go:196-205
LoadExpressions ==
    /\ pc = "loadExpressions"
    /\ \E text \in SeqsUpTo(TextTokens, MaxTextLen) :
          expressions' = SplitExpressions(text)
    /\ pc' = "loadParams"
    /\ UNCHANGED <<args, benchmarkMode, filteredArgs, objects, params, programs,
                   cIdx, objIdx, exprIdx, wr, i, k, oi, stats, clock,
                   startTime, exprStart, out, exitCode, compileCalls, evalCalls,
                   warmEvals, warmErrSeen, timedEvals>>

\* cel.go:208-211, os.ReadFile fails
ReadParamsFails ==
    /\ pc = "loadParams"
    /\ out' = Append(out, Fatal("Failed to read params file"))
    /\ exitCode' = 1
    /\ pc' = "exit"
    /\ UNCHANGED <<args, benchmarkMode, filteredArgs, objects, expressions, params,
                   programs, cIdx, objIdx, exprIdx, wr, i, k, oi, stats,
                   clock, startTime, exprStart, compileCalls, evalCalls,
                   warmEvals, warmErrSeen, timedEvals>>

\* cel.go:208-216, the first document does not decode
ParseParamsFails ==
    /\ pc = "loadParams"
    /\ \E first \in FirstDecode : ParseSingleFails(first)
    /\ out' = Append(out, Fatal("Failed to parse params YAML"))
    /\ exitCode' = 1
    /\ pc' = "exit"
    /\ UNCHANGED <<args, benchmarkMode, filteredArgs, objects, expressions, params,
                   programs, cIdx, objIdx, exprIdx, wr, i, k, oi, stats,
                   clock, startTime, exprStart, compileCalls, evalCalls,
                   warmEvals, warmErrSeen, timedEvals>>

\* cel.go:208-244: params loaded, the CEL environment created, the mode chosen
LoadParams ==
    /\ pc = "loadParams"
    /\ \E first \in FirstDecode :
          /\ ~ParseSingleFails(first)
          /\ params' = first
    /\ pc' = IF benchmarkMode THEN "compile" ELSE "objLoop"
    /\ UNCHANGED <<args, benchmarkMode, filteredArgs, objects, expressions,
                   programs, cIdx, objIdx, exprIdx, wr, i, k, oi, stats,
                   clock, startTime, exprStart, out, exitCode, compileCalls,
                   evalCalls, warmEvals, warmErrSeen, timedEvals>>

\* ---- compileExpressions, cel.go:54-74, one loop iteration per step ----

\* variant: the empty check of cel.go:57 is missing
CompileSkipEmpty_Compiles ==
    /\ pc = "compile"
    /\ cIdx <= Len(expressions)
    /\ expressions[cIdx] = <<>>
    /\ compileCalls' = compileCalls \cup {expressions[cIdx]}
    /\ programs' = Append(programs, expressions[cIdx])
    /\ cIdx' = cIdx + 1
    /\ UNCHANGED <<args, pc, benchmarkMode, filteredArgs, objects, expressions,
                   params, objIdx, exprIdx, wr, i, k, oi, stats, clock,
                   startTime, exprStart, out, exitCode, evalCalls, warmEvals,
                   warmErrSeen, timedEvals>>

\* cel.go:57-59
CompileSkipEmpty ==
    /\ pc = "compile"
    /\ cIdx <= Len(expressions)
    /\ expressions[cIdx] = <<>>
    /\ cIdx' = cIdx + 1
    /\ UNCHANGED <<args, pc, benchmarkMode, filteredArgs, objects, expressions,
                   params, programs, objIdx, exprIdx, wr, i, k, oi, stats,
                   clock, startTime, exprStart, out, exitCode, compileCalls,
                   evalCalls, warmEvals, warmErrSeen, timedEvals>>

\* variant: a compile failure is skipped, as the interactive loop does
CompileFailsFatal_Skips ==
    /\ pc = "compile"
    /\ cIdx <= Len(expressions)
    /\ expressions[cIdx] # <<>>
    /\ CompileFails(expressions[cIdx])
    /\ compileCalls' = compileCalls \cup {expressions[cIdx]}
    /\ cIdx' = cIdx + 1
    /\ UNCHANGED <<args, pc, benchmarkMode, filteredArgs, objects, expressions,
                   params, programs, objIdx, exprIdx, wr, i, k, oi, stats,
                   clock, startTime, exprStart, out, exitCode, evalCalls,
                   warmEvals, warmErrSeen, timedEvals>>

\* cel.go:61-64 and 235-237: env.Compile reports issues, nil is returned, log.Fatal
CompileFailsFatal ==
    /\ pc = "compile"
    /\ cIdx <= Len(expressions)
    /\ expressions[cIdx] # <<>>
    /\ CompileFails(expressions[cIdx])
    /\ compileCalls' = compileCalls \cup {expressions[cIdx]}
    /\ programs' = <<>>
    /\ out' = Append(out, Fatal("Failed to compile expressions for benchmark"))
    /\ exitCode' = 1
    /\ pc' = "exit"
    /\ UNCHANGED <<args, benchmarkMode, filteredArgs, objects, expressions, params,
                   cIdx, objIdx, exprIdx, wr, i, k, oi, stats, clock,
                   startTime, exprStart, evalCalls, warmEvals, warmErrSeen,
                   timedEvals>>

\* cel.go:61-69 and 235-237: env.Program fails, nil is returned, log.Fatal
ProgramFailsFatal ==
    /\ pc = "compile"
    /\ cIdx <= Len(expressions)
    /\ expressions[cIdx] # <<>>
    /\ ~CompileFails(expressions[cIdx])
    /\ ProgramFails(expressions[cIdx])
    /\ compileCalls' = compileCalls \cup {expressions[cIdx]}
    /\ programs' = <<>>
    /\ out' = Append(out, Fatal("Failed to compile expressions for benchmark"))
    /\ exitCode' = 1
    /\ pc' = "exit"
    /\ UNCHANGED <<args, benchmarkMode, filteredArgs, objects, expressions, params,
                   cIdx, objIdx, exprIdx, wr, i, k, oi, stats, clock,
                   startTime, exprStart, evalCalls, warmEvals, warmErrSeen,
                   timedEvals>>

\* cel.go:61-71
CompileOne ==
    /\ pc = "compile"
    /\ cIdx <= Len(expressions)
    /\ expressions[cIdx] # <<>>
    /\ ~CompileFails(expressions[cIdx])
    /\ ~ProgramFails(expressions[cIdx])
    /\ compileCalls' = compileCalls \cup {expressions[cIdx]}
    /\ programs' = Append(programs, expressions[cIdx])
    /\ cIdx' = cIdx + 1
    /\ UNCHANGED <<args, pc, benchmarkMode, filteredArgs, objects, expressions,
                   params, objIdx, exprIdx, wr, i, k, oi, stats, clock,
                   startTime, exprStart, out, exitCode, evalCalls, warmEvals,
                   warmErrSeen, timedEvals>>

\* cel.go:73, 239 and 78-81: the programs are returned and runBenchmark starts
CompileDone ==
    /\ pc = "compile"
    /\ cIdx > Len(expressions)
    /\ out' = out \o <<[kind |-> "benchmarkBanner"], [kind |-> "warmingUp"]>>
    /\ pc' = "warmup"
    /\ UNCHANGED <<args, benchmarkMode, filteredArgs, objects, expressions, params,
                   programs, cIdx, objIdx, exprIdx, wr, i, k, oi, stats,
                   clock, startTime, exprStart, exitCode, compileCalls, evalCalls,
                   warmEvals, warmErrSeen, timedEvals>>

\* ---- runBenchmark, cel.go:77-151 ----

\* cel.go:82-91: one repetition of the warm-up loop, every program on every
\* object; the result and the error of each Eval are discarded
WarmupPass ==
    /\ pc = "warmup"
    /\ wr < WarmupReps
    /\ \E err \in {FALSE} \cup UNION {EvalErrs(programs[p]) : p \in 1..Len(programs)} :
          warmErrSeen' = (warmErrSeen \/ (err /\ Len(objects) > 0))
    /\ evalCalls' = IF Len(objects) > 0 THEN evalCalls \cup Range(programs) ELSE evalCalls
    /\ warmEvals' = warmEvals + Len(objects) * Len(programs)
    /\ clock' = clock + Len(objects) * Len(programs)
    /\ wr' = wr + 1
    /\ UNCHANGED <<args, pc, benchmarkMode, filteredArgs, objects, expressions,
                   params, programs, cIdx, objIdx, exprIdx, i, k, oi, stats,
                   startTime, exprStart, out, exitCode, compileCalls, timedEvals>>

\* variant: the statistics already count the warm-up repetitions
MakeStats_Warm(n) == [p \in 1..n |-> [evalCount |-> WarmupReps, duration |-> WarmupReps]]

\* cel.go:99
MakeStats(n) == [p \in 1..n |-> [evalCount |-> 0, duration |-> 0]]

\* variant: the timed phase starts after the first warm-up repetition
StartTimed_Early ==
    /\ pc = "warmup"
    /\ wr >= 1
    /\ stats' = [p \in 1..Len(programs) |-> [evalCount |-> 0, duration |-> 0]]
    /\ timedEvals' = [p \in 1..Len(programs) |-> 0]
    /\ out' = Append(out, [kind |-> "running"])
    /\ startTime' = clock
    /\ exprStart' = clock
    /\ i' = 1 /\ k' = 0 /\ oi' = 1
    /\ pc' = "timed"
    /\ UNCHANGED <<args, benchmarkMode, filteredArgs, objects, expressions, params,
                   programs, cIdx, objIdx, exprIdx, wr, clock, exitCode,
                   compileCalls, evalCalls, warmEvals, warmErrSeen>>

\* cel.go:93-107: the warm-up loop is over; stats are made, the clock is read
StartTimed ==
    /\ pc = "warmup"
    /\ wr = WarmupReps
    /\ stats' = MakeStats(Len(programs))
    /\ timedEvals' = [p \in 1..Len(programs) |-> 0]
    /\ out' = Append(out, [kind |-> "running"])
    /\ startTime' = clock
    /\ exprStart' = clock
    /\ i' = 1 /\ k' = 0 /\ oi' = 1
    /\ pc' = "timed"
    /\ UNCHANGED <<args, benchmarkMode, filteredArgs, objects, expressions, params,
                   programs, cIdx, objIdx, exprIdx, wr, clock, exitCode,
                   compileCalls, evalCalls, warmEvals, warmErrSeen>>

\* cel.go:108-119: one Eval of the timed phase that returns no error
TimedEval ==
    /\ pc = "timed"
    /\ i <= Len(programs)
    /\ k < Iterations
    /\ Len(objects) > 0
    /\ FALSE \in EvalErrs(programs[i])
    /\ evalCalls' = evalCalls \cup {programs[i]}
    /\ timedEvals' = [timedEvals EXCEPT ![i] = @ + 1]
    /\ clock' = clock + 1
    /\ IF oi < Len(objects)
       THEN oi' = oi + 1 /\ UNCHANGED k
       ELSE oi' = 1 /\ k' = k + 1
    /\ UNCHANGED <<args, pc, benchmarkMode, filteredArgs, objects, expressions,
                   params, programs, cIdx, objIdx, exprIdx, wr, i, stats,
                   startTime, exprStart, out, exitCode, compileCalls, warmEvals,
                   warmErrSeen>>

\* variant: the expression number is printed 0-based
BenchmarkErrorLine_ZeroBased(n) == [kind |-> "benchmarkError", expr |-> n, err |-> "EvalError"]

\* cel.go:116: the line printed for an evaluation error of the timed phase
BenchmarkErrorLine(n) == [kind |-> "benchmarkError", expr |-> n + 1, err |-> "EvalError"]

\* variant: the error is printed but the loop goes on
TimedEvalError_Continues ==
    /\ pc = "timed"
    /\ i <= Len(programs)
    /\ k < Iterations
    /\ Len(objects) > 0
    /\ TRUE \in EvalErrs(programs[i])
    /\ evalCalls' = evalCalls \cup {programs[i]}
    /\ timedEvals' = [timedEvals EXCEPT ![i] = @ + 1]
    /\ clock' = clock + 1
    /\ out' = Append(out, BenchmarkErrorLine(i - 1))
    /\ IF oi < Len(objects)
       THEN oi' = oi + 1 /\ UNCHANGED k
       ELSE oi' = 1 /\ k' = k + 1
    /\ UNCHANGED <<args, pc, benchmarkMode, filteredArgs, objects, expressions,
                   params, programs, cIdx, objIdx, exprIdx, wr, i, stats,
                   startTime, exprStart, exitCode, compileCalls, warmEvals,
                   warmErrSeen>>

\* cel.go:108-118: one Eval of the timed phase that returns an error;
\* runBenchmark returns, and main returns after it
TimedEvalError ==
    /\ pc = "timed"
    /\ i <= Len(programs)
    /\ k < Iterations
    /\ Len(objects) > 0
    /\ TRUE \in EvalErrs(programs[i])
    /\ evalCalls' = evalCalls \cup {programs[i]}
    /\ timedEvals' = [timedEvals EXCEPT ![i] = @ + 1]
    /\ clock' = clock + 1
    /\ out' = Append(out, BenchmarkErrorLine(i - 1))
    /\ exitCode' = 0
    /\ pc' = "exit"
    /\ UNCHANGED <<args, benchmarkMode, filteredArgs, objects, expressions, params,
                   programs, cIdx, objIdx, exprIdx, wr, i, k, oi, stats,
                   startTime, exprStart, compileCalls, warmEvals, warmErrSeen>>

\* cel.go:122: the evaluation count stored for a program
RecordedEvalCount(nObjects) == Iterations

\* cel.go:106-107 and 120-123: the k loop of program i is over
TimedFinishProgram ==
    /\ pc = "timed"
    /\ i <= Len(programs)
    /\ k = Iterations \/ Len(objects) = 0
    /\ stats' = [stats EXCEPT ![i] =
                    [evalCount |-> RecordedEvalCount(Len(objects)),
                     duration |-> @.duration + (clock - exprStart)]]
    /\ i' = i + 1
    /\ k' = 0
    /\ oi' = 1
    /\ exprStart' = clock
    /\ UNCHANGED <<args, pc, benchmarkMode, filteredArgs, objects, expressions,
                   params, programs, cIdx, objIdx, exprIdx, wr, clock,
                   startTime, out, exitCode, compileCalls, evalCalls, warmEvals,
                   warmErrSeen, timedEvals>>

\* cel.go:130-132: the text printed after "Content: ", without its "..." suffix
ContentOf(exprs, n) == SubSeq(exprs[n + 1], 1, Min(ContentLimit, Len(exprs[n + 1])))

\* cel.go:129-138: the block of stats[n] (n is 0-based, as in the code)
StatsBlock(n, totalDuration) ==
    LET stat == stats[n + 1]
    IN [kind |-> "exprStats",
        expr |-> n + 1,
        hasContent |-> n < Len(expressions),
        content |-> IF n < Len(expressions) THEN ContentOf(expressions, n) ELSE <<>>,
        evaluations |-> stat.evalCount,
        totalTime |-> stat.duration,
        hasAverage |-> stat.evalCount > 0,
        average |-> IF stat.evalCount > 0 THEN stat.duration \div stat.evalCount ELSE 0,
        perSecond |-> IF stat.evalCount > 0 THEN <<stat.evalCount, totalDuration>> ELSE <<>>]

RECURSIVE SumEvalCounts(_)
SumEvalCounts(st) ==
    IF st = <<>> THEN 0 ELSE Head(st).evalCount + SumEvalCounts(Tail(st))

\* cel.go:125-151: the report, and the return to main
Report ==
    /\ pc = "timed"
    /\ i > Len(programs)
    /\ LET totalDuration == clock - startTime
       IN out' = out \o [n \in 1..Len(stats) |-> StatsBlock(n - 1, totalDuration)]
                     \o <<[kind |-> "summary",
                           totalDuration |-> totalDuration,
                           totalEvals |-> SumEvalCounts(stats)]>>
    /\ exitCode' = 0
    /\ pc' = "exit"
    /\ UNCHANGED <<args, benchmarkMode, filteredArgs, objects, expressions, params,
                   programs, cIdx, objIdx, exprIdx, wr, i, k, oi, stats,
                   clock, startTime, exprStart, compileCalls, evalCalls, warmEvals,
                   warmErrSeen, timedEvals>>

\* ---- the interactive loop of main, cel.go:244-280 ----

\* cel.go:244-245
ObjectHeader ==
    /\ pc = "objLoop"
    /\ objIdx <= Len(objects)
    /\ out' = Append(out, [kind |-> "objectHeader", obj |-> objIdx])
    /\ exprIdx' = 1
    /\ pc' = "exprLoop"
    /\ UNCHANGED <<args, benchmarkMode, filteredArgs, objects, expressions, params,
                   programs, cIdx, objIdx, wr, i, k, oi, stats, clock,
                   startTime, exprStart, exitCode, compileCalls, evalCalls,
                   warmEvals, warmErrSeen, timedEvals>>

\* cel.go:244 and 281: the range over objects is over and main returns
InteractiveDone ==
    /\ pc = "objLoop"
    /\ objIdx > Len(objects)
    /\ exitCode' = 0
    /\ pc' = "exit"
    /\ UNCHANGED <<args, benchmarkMode, filteredArgs, objects, expressions, params,
                   programs, cIdx, objIdx, exprIdx, wr, i, k, oi, stats,
                   clock, startTime, exprStart, out, compileCalls, evalCalls,
                   warmEvals, warmErrSeen, timedEvals>>

\* cel.go:247 and 244: the next iteration of the inner range, or of the outer one
NextExpression ==
    IF exprIdx < Len(expressions)
    THEN exprIdx' = exprIdx + 1 /\ UNCHANGED <<objIdx, pc>>
    ELSE exprIdx' = 1 /\ objIdx' = objIdx + 1 /\ pc' = "objLoop"

ExprHeader == [kind |-> "exprHeader", expr |-> exprIdx, text |-> expressions[exprIdx]]

\* cel.go:248-250
InteractiveSkipEmpty ==
    /\ pc = "exprLoop"
    /\ expressions[exprIdx] = <<>>
    /\ NextExpression
    /\ UNCHANGED <<args, benchmarkMode, filteredArgs, objects, expressions, params,
                   programs, cIdx, wr, i, k, oi, stats, clock, startTime,
                   exprStart, out, exitCode, compileCalls, evalCalls, warmEvals,
                   warmErrSeen, timedEvals>>

\* cel.go:252-259
InteractiveCompileFails ==
    /\ pc = "exprLoop"
    /\ expressions[exprIdx] # <<>>
    /\ CompileFails(expressions[exprIdx])
    /\ compileCalls' = compileCalls \cup {expressions[exprIdx]}
    /\ out' = out \o <<ExprHeader, [kind |-> "compileFailed"]>>
    /\ NextExpression
    /\ UNCHANGED <<args, benchmarkMode, filteredArgs, objects, expressions, params,
                   programs, cIdx, wr, i, k, oi, stats, clock, startTime,
                   exprStart, exitCode, evalCalls, warmEvals, warmErrSeen,
                   timedEvals>>

\* cel.go:252-266
InteractiveProgramFails ==
    /\ pc = "exprLoop"
    /\ expressions[exprIdx] # <<>>
    /\ ~CompileFails(expressions[exprIdx])
    /\ ProgramFails(expressions[exprIdx])
    /\ compileCalls' = compileCalls \cup {expressions[exprIdx]}
    /\ out' = out \o <<ExprHeader, [kind |-> "programFailed"]>>
    /\ NextExpression
    /\ UNCHANGED <<args, benchmarkMode, filteredArgs, objects, expressions, params,
                   programs, cIdx, wr, i, k, oi, stats, clock, startTime,
                   exprStart, exitCode, evalCalls, warmEvals, warmErrSeen,
                   timedEvals>>

\* variant: an evaluation error ends the run, as in the benchmark
InteractiveEvalFails_Abort ==
    /\ pc = "exprLoop"
    /\ expressions[exprIdx] # <<>>
    /\ ~CompileFails(expressions[exprIdx])
    /\ ~ProgramFails(expressions[exprIdx])
    /\ TRUE \in EvalErrs(expressions[exprIdx])
    /\ compileCalls' = compileCalls \cup {expressions[exprIdx]}
    /\ evalCalls' = evalCalls \cup {expressions[exprIdx]}
    /\ clock' = clock + 1
    /\ out' = out \o <<ExprHeader, [kind |-> "evalFailed"]>>
    /\ exitCode' = 0
    /\ pc' = "exit"
    /\ UNCHANGED <<args, benchmarkMode, filteredArgs, objects, expressions, params,
                   programs, cIdx, objIdx, exprIdx, wr, i, k, oi, stats,
                   startTime, exprStart, warmEvals, warmErrSeen, timedEvals>>

\* cel.go:252-278, Eval returns an error
InteractiveEvalFails ==
    /\ pc = "exprLoop"
    /\ expressions[exprIdx] # <<>>
    /\ ~CompileFails(expressions[exprIdx])
    /\ ~ProgramFails(expressions[exprIdx])
    /\ TRUE \in EvalErrs(expressions[exprIdx])
    /\ compileCalls' = compileCalls \cup {expressions[exprIdx]}
    /\ evalCalls' = evalCalls \cup {expressions[exprIdx]}
    /\ clock' = clock + 1
    /\ out' = out \o <<ExprHeader, [kind |-> "evalFailed"]>>
    /\ NextExpression
    /\ UNCHANGED <<args, benchmarkMode, filteredArgs, objects, expressions, params,
                   programs, cIdx, wr, i, k, oi, stats, startTime,
                   exprStart, exitCode, warmEvals, warmErrSeen, timedEvals>>

\* cel.go:252-278, Eval returns a value
InteractiveEval ==
    /\ pc = "exprLoop"
    /\ expressions[exprIdx] # <<>>
    /\ ~CompileFails(expressions[exprIdx])
    /\ ~ProgramFails(expressions[exprIdx])
    /\ FALSE \in EvalErrs(expressions[exprIdx])
    /\ compileCalls' = compileCalls \cup {expressions[exprIdx]}
    /\ evalCalls' = evalCalls \cup {expressions[exprIdx]}
    /\ clock' = clock + 1
    /\ out' = out \o <<ExprHeader, [kind |-> "result"]>>
    /\ NextExpression
    /\ UNCHANGED <<args, benchmarkMode, filteredArgs, objects, expressions, params,
                   programs, cIdx, wr, i, k, oi, stats, startTime,
                   exprStart, exitCode, warmEvals, warmErrSeen, timedEvals>>

Next ==
    \/ ParseArgsUsage \/ ParseArgs
    \/ ReadObjectsFails \/ ParseObjectsFails \/ LoadObjects
    \/ ReadExpressionsFails \/ LoadExpressions
    \/ ReadParamsFails \/ ParseParamsFails \/ LoadParams
    \/ CompileSkipEmpty \/ CompileFailsFatal \/ ProgramFailsFatal
    \/ CompileOne \/ CompileDone
    \/ WarmupPass \/ StartTimed
    \/ TimedEval \/ TimedEvalError \/ TimedFinishProgram \/ Report
    \/ ObjectHeader \/ InteractiveDone
    \/ InteractiveSkipEmpty \/ InteractiveCompileFails \/ InteractiveProgramFails
    \/ InteractiveEvalFails \/ InteractiveEval

Spec == Init /\ [][Next]_vars

\* ---- vocabulary of the properties ----

NumObjects == Len(objects)
NumPrograms == Len(programs)
IsNonEmpty(e) == e # <<>>
NonEmptyExpressions == SelectSeq(expressions, IsNonEmpty)

\* positions of the non-empty expressions, ascending
NonEmptyIdx ==
    LET F[n \in 0..Len(expressions)] ==
            IF n = 0 THEN <<>>
            ELSE IF expressions[n] # <<>> THEN Append(F[n - 1], n) ELSE F[n - 1]
    IN F[Len(expressions)]

OutKinds == {out[p].kind : p \in 1..Len(out)}
CellKinds == {"compileFailed", "programFailed", "evalFailed", "result"}
BenchmarkKinds == {"benchmarkBanner", "warmingUp", "running", "benchmarkError",
                   "exprStats", "summary"}
InteractiveKinds == {"objectHeader", "exprHeader"} \cup CellKinds

\* the result cells of the output, in order, each with the object and expression
\* numbers of the headers it was printed under
CellSeq ==
    LET F[p \in 0..Len(out)] ==
            IF p = 0 THEN [cells |-> <<>>, obj |-> 0, expr |-> 0]
            ELSE LET prev == F[p - 1]
                     line == out[p]
                 IN IF line.kind = "objectHeader"
                    THEN [prev EXCEPT !.obj = line.obj]
                    ELSE IF line.kind = "exprHeader"
                    THEN [prev EXCEPT !.expr = line.expr]
                    ELSE IF line.kind \in CellKinds
                    THEN [prev EXCEPT !.cells =
                              Append(@, [obj |-> prev.obj, expr |-> prev.expr,
                                         kind |-> line.kind])]
                    ELSE prev
    IN F[Len(out)].cells

\* the (object, expression) pairs of the matrix, objects outermost
ExpectedPairs ==
    LET idx == NonEmptyIdx
        M == Len(idx)
    IN [n \in 1..(NumObjects * M) |->
           [obj |-> ((n - 1) \div M) + 1, expr |-> idx[((n - 1) % M) + 1]]]

PairOf(cell) == [obj |-> cell.obj, expr |-> cell.expr]

IsPrefix(s, t) == Len(s) <= Len(t) /\ SubSeq(t, 1, Len(s)) = s

InteractiveRan == ~benchmarkMode /\ params = "doc"
InteractiveFinished == InteractiveRan /\ pc = "exit"

\* every expression header is followed by exactly one outcome line
OneOutcomePerHeader ==
    \A p \in 1..Len(out) :
        /\ out[p].kind = "exprHeader" =>
              p < Len(out) /\ out[p + 1].kind \in CellKinds
        /\ out[p].kind \in CellKinds => p > 1 /\ out[p - 1].kind = "exprHeader"

\* C1: in interactive mode the run emits exactly K x M result cells, one per
\* (object, non-empty expression) pair in matrix order, each exactly one of
\* compile failure, program-creation failure, evaluation failure or result;
\* no failure keeps a later cell from being produced.
C1_Matrix ==
    InteractiveRan =>
        LET cells == CellSeq
            pairs == [n \in 1..Len(cells) |-> PairOf(cells[n])]
        IN /\ IsPrefix(pairs, ExpectedPairs)
           /\ OneOutcomePerHeader
           /\ pc = "exit" =>
                 /\ Len(cells) = NumObjects * Len(NonEmptyExpressions)
                 /\ pairs = ExpectedPairs

C1_Witness ==
    /\ InteractiveFinished
    /\ NumObjects = 2
    /\ Len(NonEmptyExpressions) = 2
    /\ Len(CellSeq) = 4
    /\ CellSeq[1].kind = "evalFailed"
    /\ CellSeq[2].kind \in {"compileFailed", "programFailed"}
    /\ CellSeq[3].kind = "result"

\* C2: an expression that is empty after trimming is never handed to Compile
\* nor evaluated in either mode: the interactive loop prints no cell for it and
\* compileExpressions returns, when every expression compiles, the non-empty
\* expressions in their order.
C2_EmptySkipped ==
    /\ \A src \in compileCalls \cup evalCalls : TrimSpace(src) # <<>>
    /\ \A n \in 1..Len(programs) : TrimSpace(programs[n]) # <<>>
    /\ LET cells == CellSeq
       IN \A n \in 1..Len(cells) : TrimSpace(expressions[cells[n].expr]) # <<>>
    /\ \A p \in 1..Len(out) :
          out[p].kind = "exprHeader" => TrimSpace(out[p].text) # <<>>
    /\ pc \in {"warmup", "timed"} => programs = NonEmptyExpressions

C2_Witness ==
    /\ pc = "timed"
    /\ Len(expressions) = 3
    /\ expressions[2] = <<>>
    /\ Len(programs) = 2
    /\ timedEvals[2] > 0

ReportPrinted == "summary" \in OutKinds
StatsBlocks == SelectSeq(out, LAMBDA line : line.kind = "exprStats")

\* C3: after a benchmark whose timed phase completes without error, the
\* evaluation count reported for each program is iterations x object count, the
\* number of evaluations performed for it in the timed phase.
C3_CountIsEvaluations ==
    ReportPrinted =>
        \A n \in 1..Len(StatsBlocks) :
            /\ StatsBlocks[n].evaluations = Iterations * NumObjects
            /\ StatsBlocks[n].evaluations = timedEvals[n]

Aborted == "benchmarkError" \in OutKinds

\* C4: the first evaluation error of the timed phase ends the benchmark at once:
\* no evaluation follows it (the failing one is the last of its program, later
\* programs have none), and no statistics block and no summary is printed.
C4_AbortOnError ==
    Aborted =>
        /\ pc = "exit"
        /\ out[Len(out)].kind = "benchmarkError"
        /\ Cardinality({p \in 1..Len(out) : out[p].kind = "benchmarkError"}) = 1
        /\ "exprStats" \notin OutKinds
        /\ "summary" \notin OutKinds
        /\ timedEvals[i] = k * NumObjects + oi
        /\ \A n \in 1..NumPrograms :
              /\ n > i => timedEvals[n] = 0
              /\ n < i => timedEvals[n] = Iterations * NumObjects
        /\ \A n \in 1..NumPrograms : stats[n].evalCount = 0 \/ n < i

C4_Witness ==
    /\ Aborted
    /\ i < NumPrograms
    /\ oi < NumObjects
    /\ k + 1 < Iterations

CompileAborted ==
    \E p \in 1..Len(out) :
        out[p] = Fatal("Failed to compile expressions for benchmark")
ExpressionFails(e) == e # <<>> /\ (CompileFails(e) \/ ProgramFails(e))

\* C5: in benchmark mode the first expression that does not compile or yields
\* no program aborts the batch: no programs are returned, neither the warm-up
\* nor the timed phase evaluates anything, and the benchmark never starts.
C5_CompileAbort ==
    /\ CompileAborted =>
          /\ pc = "exit" /\ exitCode = 1
          /\ programs = <<>>
          /\ stats = <<>>
          /\ warmEvals = 0 /\ timedEvals = <<>> /\ evalCalls = {}
          /\ OutKinds \cap BenchmarkKinds = {}
          /\ ExpressionFails(expressions[cIdx])
          /\ \A n \in 1..(cIdx - 1) : ~ExpressionFails(expressions[n])
    /\ (benchmarkMode /\ \E n \in 1..Len(expressions) : ExpressionFails(expressions[n])) =>
          /\ pc \notin {"warmup", "timed"}
          /\ OutKinds \cap BenchmarkKinds = {}
          /\ warmEvals = 0 /\ timedEvals = <<>> /\ evalCalls = {}
          /\ pc = "exit" /\ params = "doc" => CompileAborted

C5_Witness ==
    /\ CompileAborted
    /\ cIdx = 3
    /\ expressions[1] # <<>>
    /\ expressions[2] = <<>>
    /\ CompileFails(expressions[3])
    /\ NumObjects > 0

\* C6: evaluation errors of the warm-up are ignored and never end the run, and
\* the warm-up leaves no trace in the statistics: every program's count and
\* duration are zero when the timed phase begins, and the reported counts and
\* times are those of the timed phase alone, whatever failed in the warm-up.
C6_WarmupIgnored ==
    /\ pc = "warmup" => exitCode = -1 /\ OutKinds = {"benchmarkBanner", "warmingUp"}
    /\ pc = "timed" =>
          /\ warmEvals = WarmupReps * NumObjects * NumPrograms
          /\ \A n \in 1..NumPrograms :
                n >= i => stats[n] = [evalCount |-> 0, duration |-> 0]
    /\ ReportPrinted =>
          /\ warmEvals = WarmupReps * NumObjects * NumPrograms
          /\ Len(StatsBlocks) = NumPrograms
          /\ \A n \in 1..Len(StatsBlocks) :
                /\ StatsBlocks[n].evaluations = RecordedEvalCount(NumObjects)
                /\ StatsBlocks[n].totalTime = timedEvals[n]

C6_Witness ==
    /\ warmErrSeen
    /\ ReportPrinted
    /\ NumPrograms = 2
    /\ NumObjects = 2

FlagGiven == \E n \in 1..Len(args) : args[n] = "--benchmark"

\* C7: the mode is chosen by the presence of --benchmark anywhere among the
\* arguments, and the modes exclude each other: with the flag no interactive
\* line is printed, without it nothing is compiled for, or evaluated in, the
\* warm-up or the timed phase.
C7_ModesExclusive ==
    /\ pc # "start" => benchmarkMode = FlagGiven
    /\ pc # "start" => filteredArgs = SelectSeq(args, LAMBDA a : a # "--benchmark")
    /\ FlagGiven =>
          /\ pc \notin {"objLoop", "exprLoop"}
          /\ OutKinds \cap InteractiveKinds = {}
    /\ ~FlagGiven =>
          /\ pc \notin {"compile", "warmup", "timed"}
          /\ OutKinds \cap BenchmarkKinds = {}
          /\ warmEvals = 0
          /\ timedEvals = <<>>
          /\ programs = <<>>

C7_Witness ==
    /\ Len(args) = 4
    /\ args[4] = "--benchmark"
    /\ ReportPrinted
    /\ warmEvals > 0
    /\ timedEvals[1] > 0

ErrorLine == out[Len(out)]

\* C8 as stated: the line printed when an evaluation error ends the timed phase
\* names the expression and the iteration or the object that failed.
C8_NamesIterationOrObject ==
    Aborted =>
        /\ ErrorLine.kind = "benchmarkError"
        /\ ErrorLine.expr = i
        /\ \/ "iteration" \in DOMAIN ErrorLine
           \/ "object" \in DOMAIN ErrorLine

\* C8, amended: the line printed when an evaluation error ends the timed phase
\* names the failing program by its 1-based position among the compiled
\* programs and carries the error, and nothing else: neither the iteration nor
\* the object is in it.
C8_NamesProgramOnly ==
    Aborted =>
        /\ ErrorLine.kind = "benchmarkError"
        /\ DOMAIN ErrorLine = {"kind", "expr", "err"}
        /\ ErrorLine.expr = i
        /\ ErrorLine.expr \in 1..NumPrograms
        /\ EvalMayFail(programs[ErrorLine.expr])
        /\ ErrorLine.err = "EvalError"

C8_Witness ==
    /\ Aborted
    /\ i = 2
    /\ k = 1
    /\ oi = 2

\* C9: the benchmark goes warm-up, timed phase, report, in that order: every one
\* of the 10 x objects x programs warm-up evaluations precedes every timed one,
\* the report is printed only after the last program's timed evaluations, and
\* every timed evaluation of a program precedes every one of the next program.
C9_PhaseOrder ==
    /\ pc = "warmup" => timedEvals = <<>> /\ stats = <<>>
    /\ warmEvals <= WarmupReps * NumObjects * NumPrograms
    /\ timedEvals # <<>> =>
          /\ warmEvals = WarmupReps * NumObjects * NumPrograms
          /\ \A n \in 1..NumPrograms : timedEvals[n] <= Iterations * NumObjects
          /\ \A n \in 1..(NumPrograms - 1) :
                timedEvals[n + 1] > 0 => timedEvals[n] = Iterations * NumObjects
    /\ ("exprStats" \in OutKinds \/ "summary" \in OutKinds) =>
          /\ pc = "exit"
          /\ \A n \in 1..NumPrograms : timedEvals[n] = Iterations * NumObjects
          /\ out[Len(out)].kind = "summary"

C9_Witness ==
    /\ ReportPrinted
    /\ NumPrograms = 2
    /\ NumObjects = 2
    /\ warmEvals = WarmupReps * 4
    /\ timedEvals[2] = Iterations * 2

\* C10: in the report, the Content printed in block i is a prefix of the source
\* of the expression the i-th program, whose statistics the block shows, was
\* compiled from.
C10_ContentMatchesProgram ==
    ReportPrinted =>
        \A n \in 1..Len(StatsBlocks) :
            /\ StatsBlocks[n].hasContent
            /\ IsPrefix(StatsBlocks[n].content, programs[n])
====
